---- MODULE Spec2Model ----
(***************************************************************************)
(* A model of run.py: the conversion of one bank statement export into the *)
(* three-column csv of an accounting platform.                             *)
(*                                                                         *)
(* Texts (csv cells, python str) are sequences of tokens.  A token is one  *)
(* character for the characters the program inspects (digits, "-", ".",    *)
(* ",", " ") and a whole word otherwise.  Datetimes are integers: ticks    *)
(* since 2000-01-01 00:00:00, TicksPerDay ticks to the day.  A date cell   *)
(* is a pair of the format its text is written in and the instant it       *)
(* names; the empty cell is written in no format.                          *)
(***************************************************************************)
EXTENDS Integers, Sequences, FiniteSets, TLC

\* ------------------------------------------------------------------ bounds
\* Rows of an input file (the fixture of five rows comes on top).
MaxRows == 2
\* The --from dates range over the days 1..MaxDay.
MaxDay == 1
\* Clock readings distinguished within one day.
TicksPerDay == 2

\* ------------------------------------------------------------------- texts
Digits == <<"0", "1", "2", "3", "4", "5", "6", "7", "8", "9">>

IsDigit(ch) == \E n \in 1..Len(Digits) : Digits[n] = ch

DigitValue(ch) == (CHOOSE n \in 1..Len(Digits) : Digits[n] = ch) - 1

Max(a, b) == IF a >= b THEN a ELSE b

RECURSIVE Pow10(_)
Pow10(n) == IF n <= 0 THEN 1 ELSE 10 * Pow10(n - 1)

\* str.replace(old, ""), old a single character
RECURSIVE Remove(_, _)
Remove(t, old) ==
  IF t = <<>> THEN <<>>
  ELSE IF Head(t) = old THEN Remove(Tail(t), old)
  ELSE <<Head(t)>> \o Remove(Tail(t), old)

\* str.replace(old, new), both single characters
RECURSIVE Replace(_, _, _)
Replace(t, old, new) ==
  IF t = <<>> THEN <<>>
  ELSE <<IF Head(t) = old THEN new ELSE Head(t)>> \o Replace(Tail(t), old, new)

RECURSIVE LStrip(_)
LStrip(t) == IF t # <<>> /\ Head(t) = " " THEN LStrip(Tail(t)) ELSE t

RECURSIVE RStrip(_)
RStrip(t) ==
  IF t # <<>> /\ t[Len(t)] = " " THEN RStrip(SubSeq(t, 1, Len(t) - 1)) ELSE t

\* str.strip()
Strip(t) == RStrip(LStrip(t))

LowerToken(w) ==
  CASE w = "TESCO" -> "tesco"
    [] w = "Tesco" -> "tesco"
    [] w = "Lunch" -> "lunch"
    [] OTHER -> w

\* str.lower()
RECURSIVE Lower(_)
Lower(t) ==
  IF t = <<>> THEN <<>> ELSE <<LowerToken(Head(t))>> \o Lower(Tail(t))

\* ---------------------------------------------------------------- decimals
\* decimal.Decimal: sign (1 is negative), coefficient, digits after the point.
RECURSIVE DigitsValue(_)
DigitsValue(t) ==
  IF t = <<>> THEN 0
  ELSE 10 * DigitsValue(SubSeq(t, 1, Len(t) - 1)) + DigitValue(t[Len(t)])

RECURSIVE CountOf(_, _)
CountOf(t, ch) ==
  IF t = <<>> THEN 0
  ELSE (IF Head(t) = ch THEN 1 ELSE 0) + CountOf(Tail(t), ch)

RECURSIVE IndexOf(_, _)
IndexOf(t, ch) ==
  IF t = <<>> THEN 0
  ELSE IF Head(t) = ch THEN 1
  ELSE 1 + IndexOf(Tail(t), ch)

InvalidDecimal == [ok |-> FALSE, sign |-> 0, coef |-> 0, scale |-> 0]

\* Decimal(text): an optional "-", then digits with at most one ".".
Decimal(t) ==
  LET neg == t # <<>> /\ Head(t) = "-"
      body == IF neg THEN Tail(t) ELSE t
      digits == Remove(body, ".")
      points == CountOf(body, ".")
  IN IF /\ digits # <<>>
        /\ points <= 1
        /\ \A n \in 1..Len(digits) : IsDigit(digits[n])
     THEN [ok |-> TRUE,
           sign |-> IF neg THEN 1 ELSE 0,
           coef |-> DigitsValue(digits),
           scale |-> IF points = 1 THEN Len(body) - IndexOf(body, ".") ELSE 0]
     ELSE InvalidDecimal

\* Decimal > 0
IsPositive(d) == d.sign = 0 /\ d.coef > 0

\* ROUND_HALF_EVEN, the rounding of the default context
QuantizeHalfEven(d) ==
  IF d.scale <= 2
  THEN [d EXCEPT !.coef = d.coef * Pow10(2 - d.scale), !.scale = 2]
  ELSE LET p == Pow10(d.scale - 2)
           q == d.coef \div p
           r == d.coef % p
       IN [d EXCEPT !.coef = IF 2 * r > p \/ (2 * r = p /\ q % 2 = 1)
                              THEN q + 1 ELSE q,
                    !.scale = 2]

\* Decimal.quantize(Decimal(".01"), ROUND_HALF_UP): ties go away from zero
Quantize(d) ==
  IF d.scale <= 2
  THEN [d EXCEPT !.coef = d.coef * Pow10(2 - d.scale), !.scale = 2]
  ELSE LET p == Pow10(d.scale - 2)
           q == d.coef \div p
           r == d.coef % p
       IN [d EXCEPT !.coef = IF 2 * r >= p THEN q + 1 ELSE q, !.scale = 2]

\* -Decimal: the negation of a zero is the positive zero
Negate(d) ==
  IF d.coef = 0 THEN [d EXCEPT !.sign = 0] ELSE [d EXCEPT !.sign = 1 - d.sign]

\* Decimal + Decimal
Add(a, b) ==
  LET scale == Max(a.scale, b.scale)
      va == (IF a.sign = 1 THEN -1 ELSE 1) * a.coef * Pow10(scale - a.scale)
      vb == (IF b.sign = 1 THEN -1 ELSE 1) * b.coef * Pow10(scale - b.scale)
      sum == va + vb
  IN [ok |-> TRUE,
      sign |-> IF sum < 0 THEN 1
               ELSE IF sum > 0 THEN 0
               ELSE IF a.coef = 0 /\ b.coef = 0 /\ a.sign = 1 /\ b.sign = 1
                    THEN 1 ELSE 0,
      coef |-> IF sum < 0 THEN -sum ELSE sum,
      scale |-> scale]

RECURSIVE DigitsOf(_, _)
\* the decimal digits of n, at least width of them
DigitsOf(n, width) ==
  IF n < 10 /\ width <= 1 THEN <<Digits[n + 1]>>
  ELSE DigitsOf(n \div 10, width - 1) \o <<Digits[(n % 10) + 1]>>

\* str(Decimal)
Str(d) ==
  LET ds == DigitsOf(d.coef, d.scale + 1)
      whole == SubSeq(ds, 1, Len(ds) - d.scale)
      frac == SubSeq(ds, Len(ds) - d.scale + 1, Len(ds))
  IN (IF d.sign = 1 THEN <<"-">> ELSE <<>>)
     \o whole \o (IF d.scale > 0 THEN <<".">> \o frac ELSE <<>>)

\* --------------------------------------------------------------- datetimes
FmtDateTime == "%Y-%m-%d %H:%M:%S"
FmtErste == "%d.%m.%Y"
FmtStarling == "%d/%m/%Y"
FmtPayoneer == "%d %b, %Y"
FmtCurrenxie == "%m/%d/%Y"

\* The cell that holds no date: it matches no format.
EmptyCell == [fmt |-> "", dt |-> 0]

\* datetime.strptime(text, fmt): ValueError unless the text is in that format
strptime(text, fmt) ==
  IF text.fmt = fmt THEN [ok |-> TRUE, dt |-> text.dt] ELSE [ok |-> FALSE, dt |-> 0]

DayOfMonth == <<"01", "02", "03", "04", "05", "06", "07", "08">>

\* c_dt.strftime("%Y-%m-%d"): the day, without the time of day
strftime(dt) == <<"2000", "-", "01", "-", DayOfMonth[(dt \div TicksPerDay) + 1]>>

\* c_dt <= start_datetime, with a strict comparison instead
IsOldStrict(c_dt, start_datetime) == c_dt < start_datetime

\* c_dt <= start_datetime: the row is ignored
IsOld(c_dt, start_datetime) == c_dt <= start_datetime

\* ------------------------------------------------------------------ enums
InputSource ==
  {"AIRWALLEX", "CURRENXIE", "ERSTEBANK", "NEAT", "PAYONEER", "REVOLUT",
   "STARLING", "WISE"}

OutputSource == {"FREEAGENT", "WAVE"}

AirwallexType == {<<"Deposit">>, <<"Fee">>, <<"Payout">>}

CSV_DATE_HEADER == <<"date">>
CSV_AMOUNT_HEADER == <<"amount">>
CSV_DESCRIPTION_HEADER == <<"description">>

\* ------------------------------------------------- outcomes of one csv row
NoRecord == [description |-> <<>>, amount |-> <<>>, date |-> <<>>]

\* continue
Skip == [kind |-> "skip", rec |-> NoRecord, exc |-> ""]

\* result += [{...}]
Emit(description, amount, date) ==
  [kind |-> "emit",
   rec |-> [description |-> description, amount |-> amount, date |-> date],
   exc |-> ""]

\* an exception leaves the adapter
Raise(exc) == [kind |-> "raise", rec |-> NoRecord, exc |-> exc]

\* ---------------------------------------------------------------- adapters
neat_row(start_datetime, c) ==
  LET c_dt == strptime(c.Transaction_Date, FmtDateTime)
  IN IF ~c_dt.ok THEN Raise("ValueError")
     ELSE IF IsOld(c_dt.dt, start_datetime) THEN Skip
     ELSE Emit(c.Description, c.Transaction_Amount, strftime(c_dt.dt))

airwallex_row(start_datetime, c) ==
  LET c_dt == strptime(c.Created_At, FmtDateTime)
  IN IF ~c_dt.ok THEN Raise("ValueError")
     ELSE IF IsOld(c_dt.dt, start_datetime) THEN Skip
     ELSE IF c.Type \notin AirwallexType THEN Raise("ValueError")
     ELSE LET description ==
                IF c.Type = <<"Deposit">>
                THEN c.Type \o <<" ", "from", " ">> \o c.Remitter_Name
                ELSE IF c.Type = <<"Payout">>
                THEN c.Type \o <<" ", "to", " ">> \o c.Beneficiary_Bank_Account_Name
                ELSE c.Type
          IN Emit(description, c.Net_Amount, strftime(c_dt.dt))

\* the row raises only when one column is populated, whichever it is
erste_amount_lenient(description, inbound, outbound, beneficiary) ==
  IF inbound # <<>> /\ outbound # <<>>
  THEN [ok |-> TRUE, amount |-> inbound, description |-> description]
  ELSE IF inbound # <<>>
  THEN [ok |-> TRUE, amount |-> inbound, description |-> description]
  ELSE [ok |-> TRUE, amount |-> <<"-">> \o outbound, description |-> description]

\* lines 143-152: the amount and the description of an ErsteBank row
erste_amount(description, inbound, outbound, beneficiary) ==
  IF inbound # <<>> /\ outbound # <<>>
  THEN [ok |-> FALSE, amount |-> <<>>, description |-> description]
  ELSE IF inbound # <<>>
  THEN [ok |-> TRUE,
        amount |-> inbound,
        description |-> IF beneficiary # <<>>
                        THEN description \o <<" ", "from", " ">> \o beneficiary
                        ELSE description]
  ELSE [ok |-> TRUE,
        amount |-> <<"-">> \o outbound,
        description |-> IF beneficiary # <<>>
                        THEN description \o <<" ", "to", " ">> \o beneficiary
                        ELSE description]

erste_row(start_datetime, c) ==
  LET c_dt == strptime(c.Datum_izvrsenja, FmtErste)
  IN IF ~c_dt.ok THEN Raise("ValueError")
     ELSE IF IsOld(c_dt.dt, start_datetime) THEN Skip
     ELSE LET inbound == Replace(Remove(c.Uplate, "."), ",", ".")
              outbound == Replace(Remove(c.Isplate, "."), ",", ".")
              a == erste_amount(c.Opis_placanja, inbound, outbound, c.Primalac)
          IN IF ~a.ok THEN Raise("ValueError")
             ELSE Emit(a.description, a.amount, strftime(c_dt.dt))

\* str(-Decimal(x).quantize(Decimal(".01"), ROUND_HALF_UP)) under the default rounding
reimbursement_amount_half_even(text) == Str(Negate(QuantizeHalfEven(Decimal(text))))

\* str(-Decimal(x).quantize(Decimal(".01"), ROUND_HALF_UP))
reimbursement_amount(text) == Str(Negate(Quantize(Decimal(text))))

\* the date is parsed before the state is looked at
revolut_row_date_first(start_datetime, c, is_reimbursement) ==
  LET c_dt == strptime(c.Completed_Date, FmtDateTime)
  IN IF ~c_dt.ok THEN Raise("ValueError")
     ELSE IF c.State # <<"COMPLETED">> THEN Skip
     ELSE IF IsOld(c_dt.dt, start_datetime) THEN Skip
     ELSE LET description == Remove(c.Description, ",")
          IN IF is_reimbursement
             THEN IF ~Decimal(c.Amount).ok THEN Raise("InvalidOperation")
                  ELSE IF IsPositive(Decimal(c.Amount)) THEN Skip
                  ELSE Emit(description, reimbursement_amount(c.Amount), strftime(c_dt.dt))
             ELSE Emit(description, c.Amount, strftime(c_dt.dt))

revolut_row(start_datetime, c, is_reimbursement) ==
  IF c.State # <<"COMPLETED">> THEN Skip
  ELSE LET c_dt == strptime(c.Completed_Date, FmtDateTime)
       IN IF ~c_dt.ok THEN Raise("ValueError")
          ELSE IF IsOld(c_dt.dt, start_datetime) THEN Skip
          ELSE LET description == Remove(c.Description, ",")
               IN IF is_reimbursement
                  THEN IF ~Decimal(c.Amount).ok THEN Raise("InvalidOperation")
                       ELSE IF IsPositive(Decimal(c.Amount)) THEN Skip
                       ELSE Emit(description, reimbursement_amount(c.Amount),
                                 strftime(c_dt.dt))
                  ELSE Emit(description, c.Amount, strftime(c_dt.dt))

starling_row(start_datetime, c, is_reimbursement) ==
  LET c_dt == strptime(c.Date, FmtStarling)
  IN IF ~c_dt.ok THEN Raise("ValueError")
     ELSE IF IsOld(c_dt.dt, start_datetime) THEN Skip
     ELSE LET counter_party == Strip(c.Counter_Party)
              reference == Strip(c.Reference)
              description ==
                IF Lower(counter_party) = Lower(reference) THEN counter_party
                ELSE reference \o <<" ", "(to:", " ">> \o counter_party \o <<")">>
          IN IF is_reimbursement
             THEN IF ~Decimal(c.Amount_GBP).ok THEN Raise("InvalidOperation")
                  ELSE IF IsPositive(Decimal(c.Amount_GBP)) THEN Skip
                  ELSE Emit(description, reimbursement_amount(c.Amount_GBP),
                            strftime(c_dt.dt))
             ELSE Emit(description, c.Amount_GBP, strftime(c_dt.dt))

wise_row(start_datetime, c) ==
  LET c_dt == strptime(c.Created_on, FmtDateTime)
  IN IF ~c_dt.ok THEN Raise("ValueError")
     ELSE IF IsOld(c_dt.dt, start_datetime) THEN Skip
     ELSE IF ~Decimal(c.Source_amount_after_fees).ok \/ ~Decimal(c.Source_fee_amount).ok
     THEN Raise("InvalidOperation")
     ELSE LET amount == Str(Add(Decimal(c.Source_amount_after_fees),
                                Quantize(Decimal(c.Source_fee_amount))))
          IN IF c.Direction = <<"IN">>
             THEN Emit(<<"Received", " ", "from", " ">> \o c.Source_name, amount,
                       strftime(c_dt.dt))
             ELSE IF c.Direction = <<"OUT">>
             THEN Emit(<<"Sent", " ", "to", " ">> \o c.Target_name, <<"-">> \o amount,
                       strftime(c_dt.dt))
             ELSE Raise("KeyError")

payoneer_row(start_datetime, c) ==
  LET c_dt == strptime(c.Date, FmtPayoneer)
  IN IF ~c_dt.ok THEN Raise("ValueError")
     ELSE IF IsOld(c_dt.dt, start_datetime) THEN Skip
     ELSE Emit(Remove(c.Description, ","), Remove(c.Amount, ","), strftime(c_dt.dt))

currenxie_row(start_datetime, c) ==
  LET c_dt == strptime(c.Date, FmtCurrenxie)
  IN IF ~c_dt.ok THEN Raise("ValueError")
     ELSE IF IsOld(c_dt.dt, start_datetime) THEN Skip
     ELSE LET description ==
                IF c.Reference # <<>>
                THEN Strip(c.Description \o <<" ", "-", " ">> \o c.Reference)
                ELSE c.Description
          IN Emit(description, c.Amount, strftime(c_dt.dt))

\* ------------------------------------------------------- the input files
\* Date cells of a source with a time of day: one tick before the cutoff, the
\* cutoff, one tick after it, one day after it, and the empty cell.
TimestampCells(fmt, start) ==
  {[fmt |-> fmt, dt |-> t] : t \in {start - 1, start, start + 1, start + TicksPerDay}}
    \cup {EmptyCell}

\* Date cells of a source without a time of day: the day before the cutoff, the
\* day of the cutoff, the day after it, and the empty cell.
DateCells(fmt, start) ==
  {[fmt |-> fmt, dt |-> t] : t \in {start - TicksPerDay, start, start + TicksPerDay}}
    \cup {EmptyCell}

\* A date cell the adapter reads as an instant after the cutoff.  The other
\* cells of a row are read only behind such a date, so the rows of the model
\* vary them there, and hold one plain and one rule-breaking variant elsewhere.
IsLater(cell, start) == cell.fmt # "" /\ cell.dt > start

NeatRows(start) ==
  [Transaction_Date : TimestampCells(FmtDateTime, start),
   Transaction_Amount : {<<"-", "5", ".", "0", "0">>},
   Description : {<<"Coffee">>}]

AirwallexRows(start) ==
  {c \in [Created_At : TimestampCells(FmtDateTime, start),
          Type : AirwallexType \cup {<<"Refund">>},
          Net_Amount : {<<"7", ".", "5", "0">>},
          Remitter_Name : {<<"Alice">>},
          Beneficiary_Bank_Account_Name : {<<"Bob">>}] :
     IsLater(c.Created_At, start) \/ c.Type \in {<<"Fee">>, <<"Refund">>}}

ErsteCredit == <<"1", ".", "2", "3", "4", ",", "5", "6">>
ErsteDebit == <<"5", ",", "0", "0">>

\* (Uplate, Isplate): neither, one, the other, the other with a minus sign,
\* both, and both with a credit that is only a thousands separator.
ErsteColumns ==
  {<< <<>>, <<>> >>,
   <<ErsteCredit, <<>> >>,
   << <<>>, ErsteDebit>>,
   << <<>>, <<"-">> \o ErsteDebit>>,
   <<ErsteCredit, ErsteDebit>>,
   << <<".">>, ErsteDebit>>}

ErsteProduct(start) ==
  {[Datum_izvrsenja |-> d, Opis_placanja |-> <<"Rent">>, Uplate |-> a[1],
    Isplate |-> a[2], Primalac |-> b] :
     d \in DateCells(FmtErste, start), a \in ErsteColumns, b \in {<<>>, <<"Bob">>}}

ErsteRows(start) ==
  {c \in ErsteProduct(start) :
     \/ IsLater(c.Datum_izvrsenja, start)
     \/ /\ c.Primalac = <<"Bob">>
        /\ <<c.Uplate, c.Isplate>> \in {<<ErsteCredit, <<>> >>, <<ErsteCredit, ErsteDebit>>}}

RevolutAmounts ==
  {<<"-", "0", ".", "1", "2", "5">>, <<"-", "0", ".", "0", "0", "1">>,
   <<"3", ".", "5">>, <<"x">>}

\* A row that is not completed holds no completed date, or holds one.
RevolutRows(start) ==
  {c \in [State : {<<"COMPLETED">>},
          Completed_Date : TimestampCells(FmtDateTime, start),
          Amount : RevolutAmounts,
          Description : {<<"Taxi", ",", " ", "airport">>}] :
     IsLater(c.Completed_Date, start) \/ c.Amount = <<"-", "0", ".", "1", "2", "5">>}
    \cup
  [State : {<<"REVERTED">>},
   Completed_Date : {EmptyCell, [fmt |-> FmtDateTime, dt |-> start + 1]},
   Amount : {<<"-", "0", ".", "1", "2", "5">>},
   Description : {<<"Taxi", ",", " ", "airport">>}]

StarlingRows(start) ==
  {c \in [Date : DateCells(FmtStarling, start),
          Counter_Party : {<<" ", "Tesco">>},
          Reference : {<<"TESCO">>, <<"Lunch">>},
          Amount_GBP : RevolutAmounts] :
     \/ IsLater(c.Date, start) /\ c.Reference = <<"TESCO">>
     \/ c.Amount_GBP = <<"-", "0", ".", "1", "2", "5">>}

\* (Direction, Source amount (after fees))
WiseColumns ==
  {<< <<"IN">>, <<"1", "0", ".", "0", "0">> >>,
   << <<"IN">>, <<"-", "1", "0", ".", "0", "0">> >>,
   << <<"OUT">>, <<"1", "0", ".", "0", "0">> >>,
   << <<"OUT">>, <<"-", "1", "0", ".", "0", "0">> >>,
   << <<"NEUTRAL">>, <<"1", "0", ".", "0", "0">> >>,
   << <<"IN">>, <<"x">> >>}

WiseRows(start) ==
  {c \in {[Created_on |-> d, Direction |-> a[1], Source_amount_after_fees |-> a[2],
           Source_fee_amount |-> <<"0", ".", "1", "2", "5">>,
           Source_name |-> <<"Alice">>, Target_name |-> <<"Bob">>] :
            d \in TimestampCells(FmtDateTime, start), a \in WiseColumns} :
     \/ IsLater(c.Created_on, start)
     \/ /\ c.Source_amount_after_fees = <<"1", "0", ".", "0", "0">>
        /\ c.Direction \in {<<"IN">>, <<"NEUTRAL">>}}

PayoneerRows(start) ==
  [Date : DateCells(FmtPayoneer, start),
   Amount : {<<"1", ",", "2", "3", "4", ".", "5", "6">>},
   Description : {<<"Payment", ",", " ", "ACME">>}]

CurrenxieRows(start) ==
  [Date : DateCells(FmtCurrenxie, start),
   Amount : {<<"7", ".", "5", "0">>},
   Description : {<<"Transfer", " ">>},
   Reference : {<<>>, <<"INV1">>}]

Rows(source, start) ==
  CASE source = "NEAT" -> NeatRows(start)
    [] source = "AIRWALLEX" -> AirwallexRows(start)
    [] source = "ERSTEBANK" -> ErsteRows(start)
    [] source = "REVOLUT" -> RevolutRows(start)
    [] source = "STARLING" -> StarlingRows(start)
    [] source = "WISE" -> WiseRows(start)
    [] source = "PAYONEER" -> PayoneerRows(start)
    [] source = "CURRENXIE" -> CurrenxieRows(start)

\* The fixture of five Revolut rows: two at or before the cutoff, one that is
\* not completed and holds no date, two completed after the cutoff.
FixtureKinds == <<"before", "before", "state", "valid", "valid">>

FixtureNames == <<"r1", "r2", "r3", "r4", "r5">>

FixtureRow(kind, n, start) ==
  [State |-> IF kind = "state" THEN <<"REVERTED">> ELSE <<"COMPLETED">>,
   Completed_Date |->
     IF kind = "state" THEN EmptyCell
     ELSE IF kind = "before"
     THEN [fmt |-> FmtDateTime, dt |-> IF n % 2 = 0 THEN start ELSE start - 1]
     ELSE [fmt |-> FmtDateTime, dt |-> start + 1],
   Amount |-> <<"-", "0", ".", "1", "2", "5">>,
   Description |-> <<FixtureNames[n]>>]

IsPermutation(f) == \A k \in DOMAIN f : \E n \in DOMAIN f : f[n] = k

FixtureFiles(start) ==
  {[n \in DOMAIN FixtureKinds |-> FixtureRow(FixtureKinds[f[n]], n, start)] :
     f \in {g \in [DOMAIN FixtureKinds -> DOMAIN FixtureKinds] : IsPermutation(g)}}

\* The csv rows a file of the source may hold, after its preamble and header.
Files(source, start) ==
  UNION {[1..n -> Rows(source, start)] : n \in 0..MaxRows}
    \cup (IF source = "REVOLUT" THEN FixtureFiles(start) ELSE {})

\* ------------------------------------------------------------------- state
VARIABLES
  pc,                \* where main stands
  file_type,         \* --type
  target_platform,   \* --target
  is_reimbursement,  \* --reimbursement
  from_date,         \* --from
  out_file,          \* the file at out_path
  out_before,        \* the file at out_path when main started
  input_read,        \* whether in_path was read
  lines,             \* the rows of the csv.DictReader
  i,                 \* the row the adapter's loop stands at
  result,            \* the adapter's result list
  src,               \* for each record of result, the row it came from
  err                \* the exception that ended the run

vars ==
  <<pc, file_type, target_platform, is_reimbursement, from_date, out_file,
    out_before, input_read, lines, i, result, src, err>>

NoFile == [exists |-> FALSE, rows |-> <<>>]

OldFile == [exists |-> TRUE, rows |-> << <<<<"old">>, <<"old">>, <<"old">>>> >>]

Init ==
  /\ pc = "main"
  /\ file_type \in InputSource
  /\ target_platform \in OutputSource
  /\ is_reimbursement \in BOOLEAN
  /\ from_date \in {d * TicksPerDay : d \in 1..MaxDay}
  /\ out_file \in {NoFile, OldFile}
  /\ out_before = out_file
  /\ input_read = FALSE
  /\ lines = <<>>
  /\ i = 1
  /\ result = <<>>
  /\ src = <<>>
  /\ err = ""

\* ------------------------------------------------------------------- main
ReimbursementSources == {"REVOLUT", "STARLING"}

\* line 367
MissingFlag(source, flag) == source \in ReimbursementSources /\ ~flag

\* lines 369-371 with "and" for "or"
UnexpectedFlagBoth(source, target, flag) ==
  flag /\ (source \notin ReimbursementSources /\ target # "WAVE")

\* lines 369-371
UnexpectedFlag(source, target, flag) ==
  flag /\ (source \notin ReimbursementSources \/ target # "WAVE")

\* main up to the call of read_input: the overwrite prompt and the two checks
Main ==
  /\ pc = "main"
  /\ \E confirm \in BOOLEAN :
       IF out_file.exists /\ ~confirm
       THEN pc' = "failed" /\ err' = "Abort"
       ELSE IF \/ MissingFlag(file_type, is_reimbursement)
               \/ UnexpectedFlag(file_type, target_platform, is_reimbursement)
       THEN pc' = "failed" /\ err' = "BadParameter"
       ELSE pc' = "read_input" /\ err' = err
  /\ UNCHANGED <<file_type, target_platform, is_reimbursement, from_date,
                 out_file, out_before, input_read, lines, i, result, src>>

\* read_input up to the call of the adapter: the file is read and split
read_input ==
  /\ pc = "read_input"
  /\ lines' \in Files(file_type, from_date)
  /\ input_read' = TRUE
  /\ pc' = "extract"
  /\ i' = 1
  /\ result' = <<>>
  /\ src' = <<>>
  /\ UNCHANGED <<file_type, target_platform, is_reimbursement, from_date,
                 out_file, out_before, err>>

\* result += [record], at the front instead
ExtendFront(list, rec) == <<rec>> \o list

\* result += [record]
Extend(list, rec) == list \o <<rec>>

\* One turn of an adapter's loop, given what the row comes to.
Turn(o) ==
  /\ pc = "extract"
  /\ i <= Len(lines)
  /\ CASE o.kind = "skip" ->
            /\ i' = i + 1
            /\ UNCHANGED <<pc, result, src, err>>
       [] o.kind = "emit" ->
            /\ result' = Extend(result, o.rec)
            /\ src' = Append(src, i)
            /\ i' = i + 1
            /\ UNCHANGED <<pc, err>>
       [] o.kind = "raise" ->
            /\ pc' = "failed"
            /\ err' = o.exc
            /\ result' = <<>>
            /\ src' = <<>>
            /\ i' = i
  /\ UNCHANGED <<file_type, target_platform, is_reimbursement, from_date,
                 out_file, out_before, input_read, lines>>

\* the row c of the loop
Row == lines[i]

extract_neat_data == file_type = "NEAT" /\ Turn(neat_row(from_date, Row))

extract_airwallex_data == file_type = "AIRWALLEX" /\ Turn(airwallex_row(from_date, Row))

extract_erste_data == file_type = "ERSTEBANK" /\ Turn(erste_row(from_date, Row))

extract_revolut_data ==
  file_type = "REVOLUT" /\ Turn(revolut_row(from_date, Row, is_reimbursement))

extract_starling_data ==
  file_type = "STARLING" /\ Turn(starling_row(from_date, Row, is_reimbursement))

extract_wise_data == file_type = "WISE" /\ Turn(wise_row(from_date, Row))

extract_payoneer_data == file_type = "PAYONEER" /\ Turn(payoneer_row(from_date, Row))

extract_currenxie_data == file_type = "CURRENXIE" /\ Turn(currenxie_row(from_date, Row))

\* return result
extract_return ==
  /\ pc = "extract"
  /\ i > Len(lines)
  /\ pc' = "write"
  /\ UNCHANGED <<file_type, target_platform, is_reimbursement, from_date,
                 out_file, out_before, input_read, lines, i, result, src, err>>

\* ----------------------------------------------------------------- writer
\* the fields in the order the adapters build the dict
RowOfDictOrder(rec) == <<rec.description, rec.amount, rec.date>>

\* csv.DictWriter(fieldnames=[date, amount, description]): one record's row
RowOf(rec) == <<rec.date, rec.amount, rec.description>>

\* what write_output leaves in the file
Written(destination, content) ==
  (IF destination = "WAVE"
   THEN << <<CSV_DATE_HEADER, CSV_AMOUNT_HEADER, CSV_DESCRIPTION_HEADER>> >>
   ELSE <<>>)
    \o [k \in 1..Len(content) |-> RowOf(content[k])]

\* the file is written while the adapter still runs
write_output_streaming ==
  /\ pc \in {"extract", "write"}
  /\ out_file' = [exists |-> TRUE, rows |-> Written(target_platform, result)]
  /\ pc' = IF pc = "write" THEN "done" ELSE pc
  /\ UNCHANGED <<file_type, target_platform, is_reimbursement, from_date,
                 out_before, input_read, lines, i, result, src, err>>

write_output ==
  /\ pc = "write"
  /\ out_file' = [exists |-> TRUE, rows |-> Written(target_platform, result)]
  /\ pc' = "done"
  /\ UNCHANGED <<file_type, target_platform, is_reimbursement, from_date,
                 out_before, input_read, lines, i, result, src, err>>

Next ==
  \/ Main
  \/ read_input
  \/ extract_neat_data
  \/ extract_airwallex_data
  \/ extract_erste_data
  \/ extract_revolut_data
  \/ extract_starling_data
  \/ extract_wise_data
  \/ extract_payoneer_data
  \/ extract_currenxie_data
  \/ extract_return
  \/ write_output

Spec == Init /\ [][Next]_vars

\* ------------------------------------------------- what the claims speak of
\* read_input's choice of the adapter, for one row
RowOutcome(source, start, c, flag) ==
  CASE source = "NEAT" -> neat_row(start, c)
    [] source = "AIRWALLEX" -> airwallex_row(start, c)
    [] source = "ERSTEBANK" -> erste_row(start, c)
    [] source = "REVOLUT" -> revolut_row(start, c, flag)
    [] source = "STARLING" -> starling_row(start, c, flag)
    [] source = "WISE" -> wise_row(start, c)
    [] source = "PAYONEER" -> payoneer_row(start, c)
    [] source = "CURRENXIE" -> currenxie_row(start, c)

DateCellOf(source, c) ==
  CASE source = "NEAT" -> c.Transaction_Date
    [] source = "AIRWALLEX" -> c.Created_At
    [] source = "ERSTEBANK" -> c.Datum_izvrsenja
    [] source = "REVOLUT" -> c.Completed_Date
    [] source = "WISE" -> c.Created_on
    [] OTHER -> c.Date

FormatOf(source) ==
  CASE source = "ERSTEBANK" -> FmtErste
    [] source = "STARLING" -> FmtStarling
    [] source = "PAYONEER" -> FmtPayoneer
    [] source = "CURRENXIE" -> FmtCurrenxie
    [] OTHER -> FmtDateTime

\* The unit of time of the source's date column: a tick, or a day.
UnitOf(source) == IF FormatOf(source) = FmtDateTime THEN 1 ELSE TicksPerDay

Parsed(j) == strptime(DateCellOf(file_type, lines[j]), FormatOf(file_type))

AmountCellOf(c) == IF file_type = "REVOLUT" THEN c.Amount ELSE c.Amount_GBP

Running == pc \in {"extract", "write", "done"}

\* The rows the adapter's loop has gone past.
Processed == 1..(i - 1)

Emitted == {src[k] : k \in DOMAIN src}

\* The filters of the source other than the cutoff.
PassesOtherFilters(j) ==
  /\ file_type = "REVOLUT" => lines[j].State = <<"COMPLETED">>
  /\ file_type \in ReimbursementSources /\ is_reimbursement =>
       ~IsPositive(Decimal(AmountCellOf(lines[j])))

DataRows ==
  IF target_platform = "WAVE" THEN Tail(out_file.rows) ELSE out_file.rows

\* C1: in every adapter, a row whose parsed date is at or before the cutoff
\* yields no record, a row one unit of time after the cutoff that passes the
\* source's other filters yields one, and every record comes from a row
\* strictly after the cutoff.
C1_CutoffExclusive ==
  Running =>
    /\ Len(result) = Len(src)
    /\ \A k \in DOMAIN src :
         /\ Parsed(src[k]).ok
         /\ Parsed(src[k]).dt > from_date
         /\ result[k].date = strftime(Parsed(src[k]).dt)
    /\ \A j \in Processed :
         Parsed(j).ok /\ Parsed(j).dt <= from_date => j \notin Emitted
    /\ \A j \in Processed :
         /\ Parsed(j).ok
         /\ Parsed(j).dt = from_date + UnitOf(file_type)
         /\ PassesOtherFilters(j)
         => j \in Emitted

C1_Witness ==
  /\ pc = "done"
  /\ \E j, m \in DOMAIN lines :
       /\ Parsed(j).ok /\ Parsed(j).dt = from_date /\ j \notin Emitted
       /\ Parsed(m).ok /\ Parsed(m).dt = from_date + UnitOf(file_type)
       /\ m \in Emitted

IsFixture ==
  /\ file_type = "REVOLUT"
  /\ Len(lines) = Len(FixtureKinds)
  /\ lines \in FixtureFiles(from_date)

FixtureValid ==
  {j \in DOMAIN lines :
     /\ lines[j].State = <<"COMPLETED">>
     /\ Parsed(j).ok
     /\ Parsed(j).dt > from_date}

\* C2: the records are an order-preserving subsequence of the rows: record k
\* is what the adapter makes of row src[k], no row gives two records, the rows
\* of the records ascend, and the writer keeps the order; the fixture of five
\* Revolut rows gives exactly its two valid rows, in their order.
C2_OrderPreserved ==
  /\ Running =>
       /\ Len(result) = Len(src)
       /\ \A k \in DOMAIN src :
            /\ src[k] \in Processed
            /\ RowOutcome(file_type, from_date, lines[src[k]], is_reimbursement).kind = "emit"
            /\ result[k] =
                 RowOutcome(file_type, from_date, lines[src[k]], is_reimbursement).rec
       /\ \A k, m \in DOMAIN src : k < m => src[k] < src[m]
  /\ pc = "done" =>
       /\ Len(DataRows) = Len(result)
       /\ \A k \in DOMAIN result :
            /\ DataRows[k][1] = result[k].date
            /\ DataRows[k][2] = result[k].amount
            /\ DataRows[k][3] = result[k].description
  /\ IsFixture /\ pc \in {"write", "done"} =>
       /\ Len(result) = Cardinality(FixtureValid)
       /\ Emitted = FixtureValid
       /\ \A k \in DOMAIN result : result[k].description = lines[src[k]].Description

C2_Witness ==
  /\ pc = "done"
  /\ IsFixture
  /\ Len(result) = Len(SelectSeq(FixtureKinds, LAMBDA x : x = "valid"))
  /\ Len(lines) = Len(FixtureKinds)
  /\ Len(DataRows) = Len(result)
  /\ result[1] # result[Len(result)]

\* C3: in the Revolut adapter only COMPLETED rows yield records, a row that is
\* not COMPLETED never fails the run whatever its date cell holds, and a
\* COMPLETED row with an unparseable date is never gone past: it fails the run.
C3_StateFilterFirst ==
  file_type = "REVOLUT" =>
    /\ Running =>
         /\ \A k \in DOMAIN src : lines[src[k]].State = <<"COMPLETED">>
         /\ \A j \in Processed :
              ~(lines[j].State = <<"COMPLETED">> /\ ~Parsed(j).ok)
    /\ pc = "failed" /\ input_read =>
         /\ i \in DOMAIN lines
         /\ lines[i].State = <<"COMPLETED">>
         /\ ~Parsed(i).ok => err = "ValueError"

C3_Witness ==
  /\ file_type = "REVOLUT"
  /\ pc = "failed"
  /\ err = "ValueError"
  /\ i > 1
  /\ lines[1].State # <<"COMPLETED">> /\ lines[1].Completed_Date = EmptyCell
  /\ lines[i].State = <<"COMPLETED">> /\ lines[i].Completed_Date = EmptyCell

Compatible ==
  /\ file_type \in {"REVOLUT", "STARLING"} => is_reimbursement
  /\ is_reimbursement =>
       file_type \in {"REVOLUT", "STARLING"} /\ target_platform = "WAVE"

\* C4: main goes on to read the input only for a compatible combination of
\* source, target and flag; an incompatible one is rejected with no input read
\* and no output written; Revolut and Starling never reach FreeAgent.
C4_ConfigurationChecked ==
  /\ pc \in {"read_input", "extract", "write", "done"} \/ input_read => Compatible
  /\ pc # "main" /\ ~Compatible =>
       /\ pc = "failed"
       /\ err \in {"BadParameter", "Abort"}
       /\ ~input_read
       /\ out_file = out_before
  /\ pc = "failed" /\ err = "BadParameter" =>
       ~Compatible /\ ~input_read /\ out_file = out_before
  /\ file_type \in {"REVOLUT", "STARLING"} /\ target_platform = "FREEAGENT" =>
       pc \in {"main", "failed"} /\ ~input_read /\ out_file = out_before

C4_Witness ==
  /\ pc = "failed"
  /\ err = "BadParameter"
  /\ file_type = "REVOLUT"
  /\ target_platform = "FREEAGENT"
  /\ is_reimbursement

\* C5: until the adapter has returned the whole record sequence the file at
\* out_path is what it was when main started, so a run that fails leaves no
\* output file, or the old one untouched.
C5_NoPartialOutput == pc # "done" => out_file = out_before

C5_Witness ==
  /\ pc = "failed"
  /\ err \in {"ValueError", "InvalidOperation", "KeyError"}
  /\ Len(lines) > 1
  /\ i = Len(lines)
  /\ RowOutcome(file_type, from_date, lines[1], is_reimbursement).kind = "emit"
  /\ out_file = OldFile

ValidatingSources == {"ERSTEBANK", "WISE", "AIRWALLEX"}

\* A row that breaks its source's business rule, as the cells stand in the file.
Violating(c) ==
  CASE file_type = "ERSTEBANK" -> c.Uplate # <<>> /\ c.Isplate # <<>>
    [] file_type = "WISE" -> c.Direction \notin {<<"IN">>, <<"OUT">>}
    [] file_type = "AIRWALLEX" ->
         c.Type \notin {<<"Deposit">>, <<"Fee">>, <<"Payout">>}
    [] OTHER -> FALSE

\* The same, with the ErsteBank columns taken after the removal of the
\* thousands separator.
ViolatingNormalised(c) ==
  IF file_type = "ERSTEBANK"
  THEN Remove(c.Uplate, ".") # <<>> /\ Remove(c.Isplate, ".") # <<>>
  ELSE Violating(c)

\* C6 as stated: a violating row is never gone past, whatever its date.
C6_AbortsWhateverTheDate ==
  file_type \in ValidatingSources /\ Running =>
    \A j \in Processed : ~Violating(lines[j])

\* C6, amended: a violating row dated strictly after the cutoff is never gone
\* past (the run fails at it or before it), and a failed run returns no record.
C6_AbortsAfterCutoff ==
  /\ file_type \in ValidatingSources /\ Running =>
       \A j \in Processed :
         ~(ViolatingNormalised(lines[j]) /\ Parsed(j).ok /\ Parsed(j).dt > from_date)
  /\ pc = "failed" => result = <<>> /\ out_file = out_before

C6_Witness ==
  /\ file_type = "ERSTEBANK"
  /\ pc = "failed"
  /\ err = "ValueError"
  /\ i = Len(lines)
  /\ i > 1
  /\ Violating(lines[1]) /\ Parsed(1).ok /\ Parsed(1).dt <= from_date
  /\ ViolatingNormalised(lines[i]) /\ Parsed(i).ok /\ Parsed(i).dt > from_date

\* The coefficient out, at two decimals, is the coefficient coef at scale
\* decimals rounded to the nearest, a tie going up in magnitude.
RoundsHalfUp(coef, scale, out) ==
  IF scale <= 2 THEN out = coef * Pow10(2 - scale)
  ELSE LET p == Pow10(scale - 2)
       IN 2 * (out * p - coef) <= p /\ 2 * (coef - out * p) < p

\* C7: in reimbursement mode a row with a positive amount yields no record, a
\* row with a negative amount that passes the date and state filters yields
\* one, and every amount written is the row's amount with the sign flipped,
\* rounded half-up to two decimals (-0.125 gives 0.13): not negative, with
\* exactly two decimals.
C7_ReimbursementAmounts ==
  file_type \in ReimbursementSources /\ is_reimbursement /\ Running =>
    /\ \A j \in Processed :
         LET d == Decimal(AmountCellOf(lines[j]))
         IN /\ d.ok /\ IsPositive(d) => j \notin Emitted
            /\ /\ d.ok /\ d.sign = 1 /\ d.coef > 0
               /\ Parsed(j).ok /\ Parsed(j).dt > from_date
               /\ file_type = "REVOLUT" => lines[j].State = <<"COMPLETED">>
               => j \in Emitted
    /\ \A k \in DOMAIN src :
         LET text == AmountCellOf(lines[src[k]])
             d == Decimal(text)
             out == Decimal(result[k].amount)
         IN /\ d.ok /\ ~IsPositive(d)
            /\ out.ok /\ out.sign = 0 /\ out.scale = 2
            /\ Head(result[k].amount) # "-"
            /\ RoundsHalfUp(d.coef, d.scale, out.coef)
            /\ text = <<"-", "0", ".", "1", "2", "5">> =>
                 result[k].amount = <<"0", ".", "1", "3">>

C7_Witness ==
  /\ pc = "done"
  /\ is_reimbursement
  /\ \E k \in DOMAIN src :
       /\ AmountCellOf(lines[src[k]]) = <<"-", "0", ".", "1", "2", "5">>
       /\ result[k].amount = <<"0", ".", "1", "3">>
  /\ \E j \in DOMAIN lines :
       /\ IsPositive(Decimal(AmountCellOf(lines[j])))
       /\ Parsed(j).ok /\ Parsed(j).dt > from_date
       /\ j \notin Emitted

IsOutbound(c) ==
  IF file_type = "ERSTEBANK"
  THEN Remove(c.Uplate, ".") = <<>> /\ Remove(c.Isplate, ".") # <<>>
  ELSE c.Direction = <<"OUT">>

IsInbound(c) ==
  IF file_type = "ERSTEBANK"
  THEN Remove(c.Uplate, ".") # <<>> /\ Remove(c.Isplate, ".") = <<>>
  ELSE c.Direction = <<"IN">>

\* C8: in the ErsteBank and Wise adapters the record of an outbound row has a
\* negative amount and the record of an inbound row a positive one, whatever
\* the amount and fee cells hold.
C8_SignConvention ==
  file_type \in {"ERSTEBANK", "WISE"} /\ Running =>
    \A k \in DOMAIN src :
      LET c == lines[src[k]]
          a == Decimal(result[k].amount)
      IN /\ IsOutbound(c) => a.ok /\ a.sign = 1 /\ a.coef > 0
         /\ IsInbound(c) => a.ok /\ IsPositive(a)

\* C9: the file written holds, for Wave, the header date,amount,description
\* and then one row per record, for FreeAgent the rows alone, each row the
\* record's date, amount and description in that order; an empty record
\* sequence gives the header alone, or an empty file.
C9_WriterLayout ==
  pc = "done" =>
    /\ out_file.exists
    /\ LET header == << <<"date">>, <<"amount">>, <<"description">> >>
           n == Len(out_file.rows)
       IN IF target_platform = "WAVE"
          THEN /\ n = Len(result) + 1
               /\ out_file.rows[1] = header
               /\ \A k \in DOMAIN result :
                    out_file.rows[k + 1] =
                      <<result[k].date, result[k].amount, result[k].description>>
          ELSE /\ n = Len(result)
               /\ \A k \in DOMAIN result :
                    out_file.rows[k] =
                      <<result[k].date, result[k].amount, result[k].description>>

C9_Witness ==
  /\ pc = "done"
  /\ target_platform = "FREEAGENT"
  /\ Len(result) > 1
  /\ Len(out_file.rows) = Len(result)
  /\ out_file.rows[1] = <<result[1].date, result[1].amount, result[1].description>>

\* C10: in the ErsteBank adapter a record comes only from a row with exactly
\* one of the two columns populated, and its amount is that column's
\* magnitude, with a minus sign before it when it is the outbound column.
C10_ExactlyOneColumn ==
  file_type = "ERSTEBANK" /\ Running =>
    \A k \in DOMAIN src :
      LET c == lines[src[k]]
          inbound == Replace(Remove(c.Uplate, "."), ",", ".")
          outbound == Replace(Remove(c.Isplate, "."), ",", ".")
      IN /\ (inbound # <<>>) # (outbound # <<>>)
         /\ result[k].amount = IF inbound # <<>> THEN inbound ELSE <<"-">> \o outbound
         /\ result[k].amount # <<"-">>
====
